---- MODULE Spec2Model ----
(***************************************************************************)
(* Model of the VF747 reader SDK: the Packet codec (Packet.checksum,       *)
(* Packet.__bytes__), the two connection classes of connections.py and the  *)
(* command methods of VF747Protocol.                                        *)
(*                                                                          *)
(* Python is dynamically typed and the methods of protocol.py mix lists,    *)
(* bytearrays, bytes objects and ints, so every Python value carries its    *)
(* type: [t |-> type name, v |-> contents].  An operation that Python       *)
(* rejects (bytearray + list, bytes - int, bytes(obj) whose __bytes__       *)
(* returns a bytearray) yields the exception Python raises.                 *)
(*                                                                          *)
(* State: conn is the connection object the protocol was built with, rx     *)
(* the bytes waiting on the serial line, op the method called last with     *)
(* its arguments, result its outcome, io the calls it made on the           *)
(* connection in order, log the records it logged.                          *)
(***************************************************************************)
EXTENDS Integers, Sequences, FiniteSets, TLC

VARIABLES conn, rx, op, result, io, log, scan

vars == <<conn, rx, op, result, io, log, scan>>

----------------------------------------------------------------------------
(* Bounds of the model.                                                     *)

\* longest payload / mask / parameter block handed to an operation
MaxLen == 2
\* longest response payload the tag scan is followed through step by step
MaxScan == 5
\* the reader sends its next frame once at most this many bytes of the
\* earlier ones are still unread on the serial line
MaxRx == 0

\* sample of byte values (zero, small values, sign bit, all ones)
ByteVals == {0, 1, 4, 128, 255}

----------------------------------------------------------------------------
(* Python values.                                                           *)

PyInt(n) == [t |-> "int", v |-> <<n>>]
Bytes(s) == [t |-> "bytes", v |-> s]
ByteArray(s) == [t |-> "bytearray", v |-> s]
List(s) == [t |-> "list", v |-> s]
None == [t |-> "NoneType", v |-> <<>>]
Tuple(s) == [t |-> "tuple", v |-> s]

IsInt(x) == x.t = "int"
IntOf(x) == x.v[1]
\* bytes-like: what bytearray.__add__ accepts as right operand
BytesLike(x) == x.t \in {"bytes", "bytearray"}
\* types with __len__ / __getitem__
Sized(x) == x.t \in {"bytes", "bytearray", "list", "tuple"}

\* x != n for an int literal n: values of different types are never equal
NeInt(x, n) == ~(IsInt(x) /\ IntOf(x) = n)

\* outcomes of an evaluation: a returned value or a raised exception
Ret(x) == [k |-> "ret", x |-> x]
Raise(e) == [k |-> "exc", x |-> [t |-> "exception", v |-> <<e>>]]
IsRet(r) == r.k = "ret"
IsExc(r, e) == r.k = "exc" /\ r.x.v[1] = e

----------------------------------------------------------------------------
(* utils.py                                                                 *)

byte(value) == value % 256

RECURSIVE Xor(_, _)
\* a ^ b on non-negative ints
Xor(a, b) ==
    IF a = 0 THEN b
    ELSE IF b = 0 THEN a
    ELSE (((a % 2) + (b % 2)) % 2) + (2 * Xor(a \div 2, b \div 2))

RECURSIVE And(_, _)
\* a & b on non-negative ints
And(a, b) ==
    IF a = 0 \/ b = 0 THEN 0
    ELSE ((a % 2) * (b % 2)) + (2 * And(a \div 2, b \div 2))

\* "{:02x}".format(b): two lowercase hex digits
HexDigits == <<"0", "1", "2", "3", "4", "5", "6", "7",
               "8", "9", "a", "b", "c", "d", "e", "f">>
\* mutant: "{:x}".format(b), without the zero padding
Format02x_NoPad(b) ==
    IF b < 16 THEN <<HexDigits[b + 1]>>
    ELSE <<HexDigits[(b \div 16) + 1], HexDigits[(b % 16) + 1]>>
Format02x(b) == <<HexDigits[(b \div 16) + 1], HexDigits[(b % 16) + 1]>>

\* str.upper() on one character
UpperChar(c) ==
    CASE c = "a" -> "A" [] c = "b" -> "B" [] c = "c" -> "C"
      [] c = "d" -> "D" [] c = "e" -> "E" [] c = "f" -> "F"
      [] OTHER -> c

RECURSIVE HexLoop(_, _, _)
\* for b in data: s += "{:02x}".format(b)
HexLoop(data, i, s) ==
    IF i > Len(data) THEN s
    ELSE HexLoop(data, i + 1, s \o Format02x(data[i]))

\* a string is the sequence of its characters
bytes_to_hex_string(data) ==
    [i \in 1..Len(HexLoop(data, 1, <<>>)) |-> UpperChar(HexLoop(data, 1, <<>>)[i])]

\* a str value, the sequence of its characters
Str(chars) == [t |-> "str", v |-> chars]

\* the value of one hexadecimal digit, -1 for any other character
HexValue(c) ==
    CASE c = "0" -> 0 [] c = "1" -> 1 [] c = "2" -> 2 [] c = "3" -> 3
      [] c = "4" -> 4 [] c = "5" -> 5 [] c = "6" -> 6 [] c = "7" -> 7
      [] c = "8" -> 8 [] c = "9" -> 9
      [] c \in {"a", "A"} -> 10 [] c \in {"b", "B"} -> 11
      [] c \in {"c", "C"} -> 12 [] c \in {"d", "D"} -> 13
      [] c \in {"e", "E"} -> 14 [] c \in {"f", "F"} -> 15
      [] OTHER -> -1

\* int(chunk, 16) for a chunk of one or two letters or digits; -1 stands
\* for the ValueError of a chunk that is no hexadecimal number
IntBase16(chunk) ==
    IF \E i \in DOMAIN chunk : HexValue(chunk[i]) = -1 THEN -1
    ELSE IF Len(chunk) = 1 THEN HexValue(chunk[1])
    ELSE (16 * HexValue(chunk[1])) + HexValue(chunk[2])

\* s[i:i + 2] for the 0-based index i < len(s): the slice stops at the end
Slice2(s, i) == SubSeq(s, i + 1, IF i + 2 <= Len(s) THEN i + 2 ELSE Len(s))

RECURSIVE ParseLoop(_, _, _)
\* for i in range(0, len(s), 2): data += bytearray([int(s[i:i + 2], 16)])
ParseLoop(s, i, data) ==
    IF i >= Len(s) THEN Ret(ByteArray(data))
    ELSE IF IntBase16(Slice2(s, i)) = -1 THEN Raise("ValueError")
    ELSE ParseLoop(s, i + 2, Append(data, IntBase16(Slice2(s, i))))

hex_string_to_bytes(s) == ParseLoop(s, 0, <<>>)

----------------------------------------------------------------------------
(* class Packet                                                             *)

Packet(boot_code, command, data) ==
    [boot_code |-> boot_code, command |-> command, packet_data |-> data]

\* mutant: the length counts the payload and one header byte only
effective_length_Short(p) == 1 + Len(p.packet_data.v)

\* len(self.packet_data) is only called on values Sized accepts
effective_length(p) == 2 + Len(p.packet_data.v)

\* bytearray([x]) for one element: the exception it raises, or "none"
ElemErr(x) ==
    IF ~IsInt(x) THEN "TypeError"
    ELSE IF IntOf(x) < 0 \/ IntOf(x) > 255 THEN "ValueError"
    ELSE "none"

\* bytearray([boot_code] + [effective_length()] + [command]) + packet_data:
\* the exception the expression raises, or "none"
HeaderErr(p) ==
    IF ~Sized(p.packet_data) THEN "TypeError"
    ELSE IF ElemErr(p.boot_code) # "none" THEN ElemErr(p.boot_code)
    ELSE IF effective_length(p) > 255 THEN "ValueError"
    ELSE IF ElemErr(p.command) # "none" THEN ElemErr(p.command)
    ELSE IF ~BytesLike(p.packet_data) THEN "TypeError"
    ELSE "none"

\* the bytes the checksum runs over, when HeaderErr(p) = "none"
HeaderAndData(p) ==
    <<IntOf(p.boot_code), effective_length(p), IntOf(p.command)>> \o p.packet_data.v

RECURSIVE SumLoop(_, _, _)
\* for i in range(len(data)): checksum = byte(checksum + data[i])
SumLoop(data, i, checksum) ==
    IF i > Len(data) THEN checksum
    ELSE SumLoop(data, i + 1, byte(checksum + data[i]))

\* mutant: the final "+ 1" of the two's complement is dropped
checksum_NoIncrement(p) ==
    IF HeaderErr(p) # "none" THEN Raise(HeaderErr(p))
    ELSE Ret(PyInt(byte(Xor(SumLoop(HeaderAndData(p), 1, 0), 255))))

checksum(p) ==
    IF HeaderErr(p) # "none" THEN Raise(HeaderErr(p))
    ELSE Ret(PyInt(byte(Xor(SumLoop(HeaderAndData(p), 1, 0), 255) + 1)))

\* Packet.__bytes__: returns a bytearray, not a bytes object
Packet_bytes(p) ==
    IF HeaderErr(p) # "none" THEN Raise(HeaderErr(p))
    ELSE Ret(ByteArray(HeaderAndData(p) \o <<IntOf(checksum(p).x)>>))

\* Packet.__str__: formats the bytes of __bytes__ (the text itself is not
\* modelled, only whether it can be produced)
Packet_str(p) ==
    IF IsRet(Packet_bytes(p)) THEN Ret([t |-> "str", v |-> Packet_bytes(p).x.v])
    ELSE Packet_bytes(p)

\* the builtin bytes(packet): calls __bytes__ and raises TypeError
\* ("__bytes__ returned non-bytes") unless the result is a bytes object
builtin_bytes(p) ==
    IF ~IsRet(Packet_bytes(p)) THEN Packet_bytes(p)
    ELSE IF Packet_bytes(p).x.t # "bytes" THEN Raise("TypeError")
    ELSE Packet_bytes(p)

----------------------------------------------------------------------------
(* connections.py: the two connection classes.  The transport calls an      *)
(* operation makes are recorded in io, in call order.                       *)

\* the evaluation state threaded through a method: serial input buffer,
\* transport calls made so far, log records emitted so far
World(r, i, l) == [rx |-> r, io |-> i, log |-> l]

Exc(e) == [t |-> "exception", v |-> <<e>>]
\* an exception raised with a message
ExcMsg(e, m) == [t |-> "exception", v |-> <<e, m>>]
Out(k, x, w) == [k |-> k, x |-> x, w |-> w]
Called(w, c, a) == [w EXCEPT !.io = Append(@, [c |-> c, a |-> a])]
Logged(w, m) == [w EXCEPT !.log = Append(@, m)]

\* SerialConnection.read: serial.Serial(port, baud_rate) has no timeout, so
\* read(size) blocks until size bytes arrived and returns a bytes object
\* (an empty one for size <= 0); a size that is no int raises TypeError
SerialConnection_read(w, size) ==
    IF ~IsInt(size) THEN Out("exc", Exc("TypeError"), Called(w, "read", size))
    ELSE IF IntOf(size) <= 0 THEN Out("ret", Bytes(<<>>), Called(w, "read", size))
    ELSE IF Len(w.rx) < IntOf(size) THEN Out("block", None, Called(w, "read", size))
    ELSE Out("ret", Bytes(SubSeq(w.rx, 1, IntOf(size))),
             [Called(w, "read", size) EXCEPT
                 !.rx = SubSeq(w.rx, IntOf(size) + 1, Len(w.rx))])

\* MockupConnection.read: "pass", returns None
MockupConnection_read(w, size) == Out("ret", None, Called(w, "read", size))

connection_read(w, size) ==
    IF conn = "serial" THEN SerialConnection_read(w, size)
    ELSE MockupConnection_read(w, size)

\* SerialConnection.write / MockupConnection.write
connection_write(w, data) == Out("ret", None, Called(w, "write", data))

----------------------------------------------------------------------------
(* class VF747Protocol                                                      *)

\* the outgoing boot code
HostBootCode == 64

\* lines 89-90 for the packet built on line 88
send_command_packet(w, packet) ==
    \* logger.debug(f"Write packet: {packet}") formats the packet eagerly
    IF ~IsRet(Packet_str(packet)) THEN Out("exc", Packet_str(packet).x, w)
    ELSE IF ~IsRet(builtin_bytes(packet))
         THEN Out("exc", builtin_bytes(packet).x, Logged(w, "debug: Write packet"))
    ELSE connection_write(Logged(w, "debug: Write packet"), builtin_bytes(packet).x)

send_command(w, command, param) ==
    send_command_packet(w, Packet(PyInt(HostBootCode), command, param))

\* a != b between two Python values
PyNe(a, b) ==
    IF BytesLike(a) /\ BytesLike(b) THEN a.v # b.v
    ELSE ~(a.t = b.t /\ a.v = b.v)

PacketValue(p) == [t |-> "Packet", v |-> <<p.boot_code, p.command, p.packet_data>>]

\* lines 102-107 for the packet built on line 101
read_return_packet_check(w, packet, cs) ==
    IF ~IsRet(Packet_str(packet)) THEN Out("exc", Packet_str(packet).x, w)
    ELSE IF PyNe(checksum(packet).x, cs)
         THEN Out("ret", PacketValue(packet),
                  Logged(Logged(w, "debug: Read packet"), "warning: wrong checksum"))
    ELSE Out("ret", PacketValue(packet), Logged(w, "debug: Read packet"))

\* line 100: r5 is the outcome of checksum = self.connection.read(1)
read_return_packet_5(boot_code, command, data, r5) ==
    IF r5.k # "ret" THEN r5
    ELSE read_return_packet_check(r5.w, Packet(boot_code, command, data), r5.x)

\* line 99: r4 is the outcome of data = self.connection.read(effective_length - 2)
read_return_packet_4(boot_code, command, r4) ==
    IF r4.k # "ret" THEN r4
    ELSE read_return_packet_5(boot_code, command, r4.x, connection_read(r4.w, PyInt(1)))

\* line 98: r3 is the outcome of command = self.connection.read(1);
\* effective_length - 2 raises TypeError unless effective_length is an int
read_return_packet_3(boot_code, effective, r3) ==
    IF r3.k # "ret" THEN r3
    ELSE IF ~IsInt(effective) THEN Out("exc", Exc("TypeError"), r3.w)
    ELSE read_return_packet_4(boot_code, r3.x,
                              connection_read(r3.w, PyInt(IntOf(effective) - 2)))

\* line 97: r2 is the outcome of effective_length = self.connection.read(1)
read_return_packet_2(boot_code, r2) ==
    IF r2.k # "ret" THEN r2
    ELSE read_return_packet_3(boot_code, r2.x, connection_read(r2.w, PyInt(1)))

\* lines 94-95: r1 is the outcome of boot_code = self.connection.read(1)
read_return_packet_1(r1) ==
    IF r1.k # "ret" THEN r1
    ELSE IF NeInt(r1.x, 240) /\ NeInt(r1.x, 244)
         THEN Out("exc", Exc("WrongBootCodeException"), r1.w)
    ELSE read_return_packet_2(r1.x, connection_read(r1.w, PyInt(1)))

read_return_packet(w) == read_return_packet_1(connection_read(w, PyInt(1)))

\* packet = self.read_return_packet() after send_command returned s
AfterSend(s) == IF s.k # "ret" THEN s ELSE read_return_packet(s.w)

\* send_command(command, param); packet = read_return_packet()
Transact(w, command, param) == AfterSend(send_command(w, PyInt(command), param))

\* fields of the packet a transaction returned
PCommand(r) == r.x.v[2]
PData(r) == r.x.v[3]

----------------------------------------------------------------------------
(* The implemented commands.                                                *)

\* the if / elif chain of error_to_str on an int
ErrorText(code) ==
    CASE code = 0 -> "Command success or detect correct"
      [] code = 1 -> "Anteanna connection fail"
      [] code = 2 -> "Detect no tag"
      [] code = 3 -> "illegal tag"
      [] code = 4 -> "read/write power is inadequat"
      [] code = 5 -> "write protection in this area"
      [] code = 6 -> "checksum error"
      [] code = 7 -> "paramter wrong"
      [] code = 8 -> "nonexistent data rea"
      [] code = 9 -> "wrong password"
      [] code = 10 -> "kill password cant be 0"
      [] code = 11 -> "when reader is in automode the command is illegal"
      [] code = 12 -> "Illegal user with unmatched password"
      [] code = 13 -> "RF interference from external"
      [] code = 14 -> "Read protection on tag"
      [] code = 30 -> "Invalid command, such as wrong parameter command"
      [] code = 31 -> "Unknown command"
      [] code = 32 -> "Other error"
      [] OTHER -> "Unknown error"

\* mutant: the codes from 0x1E on fall through to the else branch
error_to_str_LowCodesOnly(error_code) ==
    IF ~IsInt(error_code) \/ IntOf(error_code) >= 30 THEN "Unknown error"
    ELSE ErrorText(IntOf(error_code))

\* error_to_str: a value that is no int equals none of the codes
error_to_str(error_code) ==
    IF ~IsInt(error_code) THEN "Unknown error"
    ELSE ErrorText(IntOf(error_code))

\* the if/elif chain of set_baud_rate: the code for a rate, -1 for "else"
BaudParam(baudrate) ==
    IF baudrate = 600 THEN 0
    ELSE IF baudrate = 1200 THEN 1
    ELSE IF baudrate = 2400 THEN 2
    ELSE IF baudrate = 4800 THEN 3
    ELSE IF baudrate = 9600 THEN 4
    ELSE IF baudrate = 19200 THEN 5
    ELSE IF baudrate = 38400 THEN 6
    ELSE IF baudrate = 57600 THEN 7
    ELSE IF baudrate = 115200 THEN 8
    ELSE -1

\* lines 184-185: r is the outcome of the transaction
set_baud_rate_check(r) ==
    IF r.k # "ret" THEN r
    ELSE IF NeInt(PCommand(r), 1)
         THEN Out("exc", ExcMsg("RuntimeError", "Received wrong answer"), r.w)
    ELSE Out("ret", None, r.w)

set_baud_rate(w, baudrate) ==
    IF BaudParam(baudrate) = -1
    THEN Out("exc", ExcMsg("RuntimeError", "Invalid baudrate"), w)
    ELSE set_baud_rate_check(Transact(w, 1, List(<<BaudParam(baudrate)>>)))

\* packet.packet_data[i] (0-based) on a value that Sized accepts
Item(data, i) == data.v[i + 1]

\* lines 198-206, in the world w1 the command check left
get_reader_version_parse(data, w1) ==
    IF ~Sized(data) THEN Out("exc", Exc("TypeError"), w1)
    ELSE IF Len(data.v) < 4
         THEN Out("ret", None, Logged(w1, "error: packet data invalid"))
    ELSE Out("ret", Tuple(<<Tuple(<<Item(data, 0), Item(data, 1)>>),
                            Tuple(<<Item(data, 2), Item(data, 3)>>)>>), w1)

\* lines 195-196: a wrong command code is logged, not raised
get_reader_version_check(r) ==
    IF r.k # "ret" THEN r
    ELSE IF NeInt(PCommand(r), 2)
         THEN get_reader_version_parse(PData(r),
                  Logged(r.w, "warning: received invalid return command"))
    ELSE get_reader_version_parse(PData(r), r.w)

get_reader_version(w) == get_reader_version_check(Transact(w, 2, List(<<>>)))

\* int(b) for a bool
BoolInt(b) == IF b THEN 1 ELSE 0

\* lines 221-222
set_relay_check(r) ==
    IF r.k # "ret" THEN r
    ELSE IF NeInt(PCommand(r), 3)
         THEN Out("exc", ExcMsg("RuntimeError", "Set Relay command failed"), r.w)
    ELSE Out("ret", None, r.w)

set_relay(w, relay1, relay2) ==
    set_relay_check(Transact(w, 3, List(<<BoolInt(relay1) + (BoolInt(relay2) * 4)>>)))

\* lines 232-241
get_relay_check(r) ==
    IF r.k # "ret" THEN r
    ELSE IF NeInt(PCommand(r), 8)
         THEN Out("exc", ExcMsg("RuntimeError", "Received wrong packet for answer"), r.w)
    ELSE IF ~Sized(PData(r)) THEN Out("exc", Exc("TypeError"), r.w)
    ELSE IF Len(PData(r).v) < 1
         THEN Out("exc", ExcMsg("RuntimeError", "Return packet is invalid"), r.w)
    ELSE Out("ret", Tuple(<<And(Item(PData(r), 0), 1) # 0,
                            And(Item(PData(r), 0), 2) # 0>>), r.w)

get_relay(w) == get_relay_check(Transact(w, 11, List(<<>>)))

\* lines 257-263
read_param_check(r) ==
    IF r.k # "ret" THEN r
    ELSE IF NeInt(PCommand(r), 6)
         THEN Out("exc", ExcMsg("RuntimeError", "Received invalid packet"), r.w)
    ELSE IF ~Sized(PData(r)) THEN Out("exc", Exc("TypeError"), r.w)
    ELSE IF Len(PData(r).v) # 32
         THEN Out("exc", ExcMsg("RuntimeError", "Return packet has invalid data"), r.w)
    ELSE Out("ret", PData(r), r.w)

read_param(w) == read_param_check(Transact(w, 6, List(<<>>)))

\* the commands that only check the echoed command code
Echoed(r, command) ==
    IF r.k # "ret" THEN r
    ELSE IF NeInt(PCommand(r), command)
         THEN Out("exc", ExcMsg("RuntimeError", "Received invalid packet"), r.w)
    ELSE Out("ret", None, r.w)

set_param(w, param) == Echoed(Transact(w, 9, param), 9)

RECURSIVE Shl(_, _)
\* a << n
Shl(a, n) == IF n = 0 THEN a ELSE Shl(2 * a, n - 1)

select_antenna(w, antenna) ==
    Echoed(Transact(w, 10, List(<<Shl(1, antenna)>>)), 10)

restore_factory_settings(w) == Echoed(Transact(w, 14, List(<<>>)), 14)

set_auto_mode(w, status) == Echoed(Transact(w, 15, List(<<BoolInt(status)>>)), 15)

clear_memory(w) == Echoed(Transact(w, 16, List(<<>>)), 16)

RECURSIVE ScanTags(_, _, _)
\* the while loop of list_tag_id; ptr is the 0-based index of the source
ScanTags(data, ptr, tags) ==
    IF ~(ptr < Len(data)) THEN tags
    ELSE IF ptr + 1 + (2 * data[ptr + 1]) > Len(data) THEN tags
    ELSE ScanTags(data, ptr + 1 + (2 * data[ptr + 1]),
                  Append(tags, bytes_to_hex_string(
                      SubSeq(data, ptr + 2, ptr + 1 + (2 * data[ptr + 1])))))

\* int.to_bytes(mask_start, length=2, byteorder="big"), for 0 <= mask_start < 65536
ToBytes2(n) == <<n \div 256, n % 256>>

\* lines 389-411
list_tag_id_decode(r) ==
    IF r.k # "ret" THEN r
    ELSE IF NeInt(PCommand(r), 238)
         THEN Out("exc", ExcMsg("RuntimeError", "Received invalid return"), r.w)
    ELSE IF ~Sized(PData(r)) THEN Out("exc", Exc("TypeError"), r.w)
    ELSE IF Len(PData(r).v) = 0 THEN Out("exc", Exc("IndexError"), r.w)
    ELSE Out("ret", Tuple(<<Item(PData(r), 0), ScanTags(PData(r).v, 1, <<>>)>>), r.w)

list_tag_id(w, memory_bank, mask_start, mask_size, mask) ==
    \* data += mask accepts only bytes-like operands
    IF ~BytesLike(mask) THEN Out("exc", Exc("TypeError"), w)
    ELSE list_tag_id_decode(
             Transact(w, 238, ByteArray(<<memory_bank>> \o ToBytes2(mask_start)
                                           \o <<mask_size>> \o mask.v)))

----------------------------------------------------------------------------
(* The commands that are not implemented.                                   *)

set_output_power(w) == Out("exc", Exc("NotImplementedError"), w)
set_frequency(w) == Out("exc", Exc("NotImplementedError"), w)
read_auto_param(w) == Out("exc", Exc("NotImplementedError"), w)
set_auto_param(w) == Out("exc", Exc("NotImplementedError"), w)
\* mutant: reboot written like the implemented commands instead of left a stub
reboot_Implemented(w) == Echoed(Transact(w, 13, List(<<>>)), 13)

reboot(w) == Out("exc", Exc("NotImplementedError"), w)
set_reader_time(w) == Out("exc", Exc("NotImplementedError"), w)
get_reader_time(w) == Out("exc", Exc("NotImplementedError"), w)
set_report_filter(w) == Out("exc", Exc("NotImplementedError"), w)
get_report_filter(w) == Out("exc", Exc("NotImplementedError"), w)
set_reader_network_address(w) == Out("exc", Exc("NotImplementedError"), w)
get_reader_network_address(w) == Out("exc", Exc("NotImplementedError"), w)
set_reader_mac(w) == Out("exc", Exc("NotImplementedError"), w)
get_reader_mac(w) == Out("exc", Exc("NotImplementedError"), w)
report_now(w) == Out("exc", Exc("NotImplementedError"), w)
get_tag_info(w) == Out("exc", Exc("NotImplementedError"), w)
get_reader_id(w) == Out("exc", Exc("NotImplementedError"), w)

StubNames ==
    {"set_output_power", "set_frequency", "read_auto_param", "set_auto_param",
     "reboot", "set_reader_time", "get_reader_time", "set_report_filter",
     "get_report_filter", "set_reader_network_address",
     "get_reader_network_address", "set_reader_mac", "get_reader_mac",
     "report_now", "get_tag_info", "get_reader_id"}

\* the method a stub name denotes
CallStub(name, w) ==
    CASE name = "set_output_power" -> set_output_power(w)
      [] name = "set_frequency" -> set_frequency(w)
      [] name = "read_auto_param" -> read_auto_param(w)
      [] name = "set_auto_param" -> set_auto_param(w)
      [] name = "reboot" -> reboot(w)
      [] name = "set_reader_time" -> set_reader_time(w)
      [] name = "get_reader_time" -> get_reader_time(w)
      [] name = "set_report_filter" -> set_report_filter(w)
      [] name = "get_report_filter" -> get_report_filter(w)
      [] name = "set_reader_network_address" -> set_reader_network_address(w)
      [] name = "get_reader_network_address" -> get_reader_network_address(w)
      [] name = "set_reader_mac" -> set_reader_mac(w)
      [] name = "get_reader_mac" -> get_reader_mac(w)
      [] name = "report_now" -> report_now(w)
      [] name = "get_tag_info" -> get_tag_info(w)
      [] name = "get_reader_id" -> get_reader_id(w)

----------------------------------------------------------------------------
(* Inputs.                                                                  *)

RECURSIVE SeqsUpTo(_, _)
\* the sequences over S of length at most n
SeqsUpTo(S, n) ==
    IF n = 0 THEN {<<>>}
    ELSE SeqsUpTo(S, n - 1) \cup
         {Append(q, x) : q \in {t \in SeqsUpTo(S, n - 1) : Len(t) = n - 1}, x \in S}

\* Packet fields handed to the codec
PktBoots == {64, 240, 255}
PktCmds == {1, 255}
PktPayloads == SeqsUpTo(ByteVals, MaxLen)
PktData == {ByteArray(q) : q \in PktPayloads}
               \cup {Bytes(<<1>>), List(<<>>), List(<<4>>)}

\* frames the reader puts on the serial line: well-formed responses to the
\* commands, one with a damaged checksum, one with a host boot code and
\* one with an effective length below 2
DevPayloads == SeqsUpTo({1}, MaxLen)
GoodFrame(b, c, q) == Packet_bytes(Packet(PyInt(b), PyInt(c), ByteArray(q))).x.v
BadChecksum(f) == [f EXCEPT ![Len(f)] = byte(@ + 1)]
\* a settings block of read_param
ParamBlock == [i \in 1..32 |-> i]
\* count 5, two complete one-word records, a two-word record cut short
TruncatedTagList == <<5, 1, 17, 34, 1, 51, 68, 2, 85>>
DevFrames ==
    {GoodFrame(240, 238, q) : q \in DevPayloads}
    \cup {GoodFrame(240, 2, <<>>), GoodFrame(244, 2, <<>>), GoodFrame(64, 2, <<>>),
          BadChecksum(GoodFrame(240, 2, <<>>)), <<240, 1, 2, 13>>,
          GoodFrame(240, 2, <<1, 2, 3, 4>>), GoodFrame(240, 6, ParamBlock),
          GoodFrame(240, 6, <<1>>), GoodFrame(240, 8, <<1>>), GoodFrame(240, 8, <<>>),
          GoodFrame(240, 3, <<>>), GoodFrame(244, 238, TruncatedTagList)}

\* arguments of the commands
BaudInputs == {600, 1200, 2400, 4800, 9600, 19200, 38400, 57600, 115200, 0, 9601}
ParamInputs == {ByteArray(<<1, 0>>), Bytes(<<1>>), List(<<1>>)}
AntennaInputs == 0..3
MaskInputs == {ByteArray(<<>>), Bytes(<<1>>), List(<<1>>)}
CommandInputs == {1, 256}

----------------------------------------------------------------------------
(* State machine.  op is the last call made (with the serial input buffer   *)
(* it started from), result its outcome, io the transport calls it made in  *)
(* order, log the records it logged.                                        *)

\* no scan loop is being followed
NoScan == [data |-> <<>>, ptr |-> 0, tags |-> <<>>, top |-> 0, pc |-> "idle"]

Init ==
    /\ conn \in {"serial", "mockup"}
    /\ rx = <<>>
    /\ op = [name |-> "idle", args |-> <<>>, rx0 |-> <<>>]
    /\ result = [k |-> "ret", x |-> None]
    /\ io = <<>>
    /\ log = <<>>
    /\ scan = NoScan

\* the world a call starts from
W0 == World(rx, <<>>, <<>>)

\* no call is in progress or recorded
Idle == [name |-> "idle", args |-> <<>>, rx0 |-> <<>>]

\* a call that ran to its outcome; calls do not overlap, and a call blocked
\* in a read is not taken until the bytes it waits for have arrived
Call(name, args, out) ==
    /\ op = Idle
    /\ out.k # "block"
    /\ op' = [name |-> name, args |-> args, rx0 |-> rx]
    /\ result' = [k |-> out.k, x |-> out.x]
    /\ rx' = out.w.rx
    /\ io' = out.w.io
    /\ log' = out.w.log
    /\ UNCHANGED <<conn, scan>>

\* the caller has taken the outcome of the call
Done ==
    /\ op # Idle
    /\ op' = Idle
    /\ result' = [k |-> "ret", x |-> None]
    /\ io' = <<>>
    /\ log' = <<>>
    /\ UNCHANGED <<conn, rx, scan>>

\* between two calls the reader sends a frame
Deliver ==
    \E f \in DevFrames :
        /\ conn = "serial"
        /\ op = Idle
        /\ Len(rx) <= MaxRx
        /\ rx' = rx \o f
        /\ UNCHANGED <<conn, op, result, io, log, scan>>

Do_send_command ==
    \E c \in CommandInputs, q \in MaskInputs :
        Call("send_command", <<PyInt(c), q>>, send_command(W0, PyInt(c), q))

Do_read_return_packet ==
    Call("read_return_packet", <<>>, read_return_packet(W0))

Do_set_baud_rate ==
    \E b \in BaudInputs : Call("set_baud_rate", <<PyInt(b)>>, set_baud_rate(W0, b))

Do_get_reader_version ==
    Call("get_reader_version", <<>>, get_reader_version(W0))

Do_set_relay ==
    \E r1 \in BOOLEAN, r2 \in BOOLEAN :
        Call("set_relay", <<r1, r2>>, set_relay(W0, r1, r2))

Do_get_relay == Call("get_relay", <<>>, get_relay(W0))

Do_read_param == Call("read_param", <<>>, read_param(W0))

Do_set_param ==
    \E q \in ParamInputs : Call("set_param", <<q>>, set_param(W0, q))

Do_select_antenna ==
    \E a \in AntennaInputs :
        Call("select_antenna", <<PyInt(a)>>, select_antenna(W0, a))

Do_restore_factory_settings ==
    Call("restore_factory_settings", <<>>, restore_factory_settings(W0))

Do_set_auto_mode ==
    \E b \in BOOLEAN : Call("set_auto_mode", <<b>>, set_auto_mode(W0, b))

Do_clear_memory == Call("clear_memory", <<>>, clear_memory(W0))

Do_list_tag_id ==
    \E bank \in {1, 3}, start \in {0, 257}, size \in {8}, mask \in MaskInputs :
        Call("list_tag_id", <<PyInt(bank), PyInt(start), PyInt(size), mask>>,
             list_tag_id(W0, bank, start, size, mask))

Do_stub ==
    \E name \in StubNames : Call(name, <<>>, CallStub(name, W0))

Next ==
    \/ Deliver
    \/ Done
    \/ Do_send_command
    \/ Do_read_return_packet
    \/ Do_set_baud_rate
    \/ Do_get_reader_version
    \/ Do_set_relay
    \/ Do_get_relay
    \/ Do_read_param
    \/ Do_set_param
    \/ Do_select_antenna
    \/ Do_restore_factory_settings
    \/ Do_set_auto_mode
    \/ Do_clear_memory
    \/ Do_list_tag_id
    \/ Do_stub

Spec == Init /\ [][Next]_vars

(* The codec on its own: Packet objects built from the input sets and       *)
(* one of their methods called.                                             *)

\* the outcome r of a method that makes no transport call
Pure(r) == Out(r.k, r.x, W0)

Do_Packet_bytes ==
    \E b \in PktBoots, c \in PktCmds, d \in PktData :
        Call("Packet.__bytes__", <<PyInt(b), PyInt(c), d>>,
             Pure(Packet_bytes(Packet(PyInt(b), PyInt(c), d))))

Do_Packet_checksum ==
    \E b \in PktBoots, c \in PktCmds, d \in PktData :
        Call("Packet.checksum", <<PyInt(b), PyInt(c), d>>,
             Pure(checksum(Packet(PyInt(b), PyInt(c), d))))

Do_builtin_bytes ==
    \E b \in PktBoots, c \in PktCmds, d \in PktData :
        Call("bytes(Packet)", <<PyInt(b), PyInt(c), d>>,
             Pure(builtin_bytes(Packet(PyInt(b), PyInt(c), d))))

\* the codes handed to error_to_str: every byte value, the first value
\* past a byte, and a byte as the serial line returns it
ErrorCodeInputs == {PyInt(c) : c \in 0..256} \cup {Bytes(<<1>>)}

Do_error_to_str ==
    \E c \in ErrorCodeInputs :
        Call("error_to_str", <<c>>, Pure(Ret(Str(<<error_to_str(c)>>))))

\* the byte strings handed to bytes_to_hex_string
HexInputs == {<<b>> : b \in 0..255} \cup PktPayloads

Do_bytes_to_hex_string ==
    \E b \in HexInputs :
        Call("bytes_to_hex_string", <<Bytes(b)>>, Pure(Ret(Str(bytes_to_hex_string(b)))))

\* the strings handed to hex_string_to_bytes: upper and lower case, an odd
\* length, and characters that are no digits
HexStrings ==
    {bytes_to_hex_string(b) : b \in PktPayloads}
        \cup {<<"f", "f">>, <<"a", "B", "c">>, <<"0", "g">>, <<"z">>}

Do_hex_string_to_bytes ==
    \E s \in HexStrings :
        Call("hex_string_to_bytes", <<Str(s)>>, Pure(hex_string_to_bytes(s)))

NextCodec ==
    \/ Do_Packet_bytes \/ Do_Packet_checksum \/ Do_builtin_bytes
    \/ Do_error_to_str \/ Do_bytes_to_hex_string \/ Do_hex_string_to_bytes
    \/ Done

SpecCodec == Init /\ [][NextCodec]_vars

----------------------------------------------------------------------------
(* The scan loop of list_tag_id, one iteration at a time, on the payload of  *)
(* a response with command 0xEE.                                            *)

\* the bytes of the payloads scanned: word counts 0, 1 and 2 and a count
\* that reaches past every payload
ScanBytes == {0, 1, 2, 255}
ScanPayloads == SeqsUpTo(ScanBytes, MaxScan) \ {<<>>}

\* mutant: end = ptr + 2 * num_words, the word count byte not stepped over
ScanEnd_NoCountByte(data, ptr) == ptr + (2 * data[ptr + 1])

\* end = ptr + 1 + 2 * num_words with num_words = data[ptr]
ScanEnd(data, ptr) == ptr + 1 + (2 * data[ptr + 1])

Max(a, b) == IF a >= b THEN a ELSE b

\* num_tags_total = packet.packet_data[0]; tags = []; ptr = 1
\* top is the highest 0-based index of data read so far
InitScan ==
    /\ conn = "serial"
    /\ rx = <<>>
    /\ op = [name |-> "idle", args |-> <<>>, rx0 |-> <<>>]
    /\ result = [k |-> "ret", x |-> None]
    /\ io = <<>>
    /\ log = <<>>
    /\ \E d \in ScanPayloads :
           scan = [data |-> d, ptr |-> 1, tags |-> <<>>, top |-> 0, pc |-> "loop"]

\* while ptr < len(data) is false
ScanExit ==
    /\ scan.pc = "loop"
    /\ ~(scan.ptr < Len(scan.data))
    /\ scan' = [scan EXCEPT !.pc = "done"]
    /\ UNCHANGED <<conn, rx, op, result, io, log>>

\* the boundary check: if end > len(data): break
ScanBreak ==
    /\ scan.pc = "loop"
    /\ scan.ptr < Len(scan.data)
    /\ ScanEnd(scan.data, scan.ptr) > Len(scan.data)
    /\ scan' = [scan EXCEPT !.pc = "done", !.top = Max(@, scan.ptr)]
    /\ UNCHANGED <<conn, rx, op, result, io, log>>

\* one tag ID decoded from data[start:end] and appended; ptr = end
ScanRecord ==
    /\ scan.pc = "loop"
    /\ scan.ptr < Len(scan.data)
    /\ ScanEnd(scan.data, scan.ptr) <= Len(scan.data)
    /\ scan' = [scan EXCEPT
                   !.ptr = ScanEnd(scan.data, scan.ptr),
                   !.tags = Append(@, bytes_to_hex_string(
                                SubSeq(scan.data, scan.ptr + 2,
                                       ScanEnd(scan.data, scan.ptr)))),
                   !.top = Max(@, Max(scan.ptr, ScanEnd(scan.data, scan.ptr) - 1))]
    /\ UNCHANGED <<conn, rx, op, result, io, log>>

NextScan == ScanExit \/ ScanBreak \/ ScanRecord

\* the loop runs in one thread with nothing to wait for between iterations
SpecScan == InitScan /\ [][NextScan]_vars /\ WF_vars(NextScan)

----------------------------------------------------------------------------
(* Vocabulary of the properties: the wire format of the frame at the head   *)
(* of the serial input a call started from.                                 *)

RECURSIVE SumSeq(_)
SumSeq(q) == IF q = <<>> THEN 0 ELSE Head(q) + SumSeq(Tail(q))

Range(q) == {q[i] : i \in DOMAIN q}

\* q starts with boot code, effective length L >= 2, command, L - 2 payload
\* bytes and a checksum byte
HasFrame(q) == Len(q) >= 4 /\ q[2] >= 2 /\ Len(q) >= q[2] + 2
FrameBoot(q) == q[1]
FrameCommand(q) == q[3]
FramePayload(q) == SubSeq(q, 4, q[2] + 1)
FrameChecksum(q) == q[q[2] + 2]
\* the value that makes the frame sum to 0 modulo 256
FrameChecksumOk(q) == SumSeq(SubSeq(q, 1, q[2] + 2)) % 256 = 0
\* a response frame: sent by the reader, with one of its two boot codes
ResponseAtHead(q) == HasFrame(q) /\ FrameBoot(q) \in {240, 244}

ImplementedNames ==
    {"set_baud_rate", "get_reader_version", "set_relay", "get_relay",
     "read_param", "set_param", "select_antenna", "restore_factory_settings",
     "set_auto_mode", "clear_memory", "list_tag_id"}

\* the command code each operation expects in its response
ExpectedCommand(name) ==
    CASE name = "set_baud_rate" -> 1
      [] name = "get_reader_version" -> 2
      [] name = "set_relay" -> 3
      [] name = "get_relay" -> 8
      [] name = "read_param" -> 6
      [] name = "set_param" -> 9
      [] name = "select_antenna" -> 10
      [] name = "restore_factory_settings" -> 14
      [] name = "set_auto_mode" -> 15
      [] name = "clear_memory" -> 16
      [] name = "list_tag_id" -> 238

\* the last call was an implemented command whose arguments are accepted
ValidCommandCall ==
    /\ op.name \in ImplementedNames
    /\ op.name = "set_baud_rate" => BaudParam(IntOf(op.args[1])) # -1
    /\ op.name = "list_tag_id" => BytesLike(op.args[4])
    /\ op.name = "set_param" => BytesLike(op.args[1])

WriteCalls == {i \in DOMAIN io : io[i].c = "write"}
ReadCalls == {i \in DOMAIN io : io[i].c = "read"}

----------------------------------------------------------------------------
(* C1..C10                                                                  *)

\* C1: for every boot code, command and payload (a byte string), the bytes
\* of the frame Packet.__bytes__ produces sum to 0 modulo 256.
C1_ChecksumInvariant ==
    (op.name = "Packet.__bytes__" /\ BytesLike(op.args[3]))
        => (IsRet(result) /\ SumSeq(result.x.v) % 256 = 0)

\* a frame with a two-byte payload whose byte sum wraps past 256 was encoded
C1_Witness ==
    /\ op.name = "Packet.__bytes__"
    /\ IsRet(result)
    /\ Len(op.args[3].v) = 2
    /\ SumSeq(result.x.v) >= 512

\* C2: the bytes of an encoded frame, fed through the transport to
\* read_return_packet, come back as a Packet with the same boot code,
\* command and payload, and no checksum warning is logged.  Stated for the
\* frames that carry one of the two boot codes read_return_packet accepts.
C2_RoundTrip ==
    (op.name = "read_return_packet" /\ ResponseAtHead(op.rx0)
         /\ FrameChecksumOk(op.rx0) /\ Len(op.rx0) = op.rx0[2] + 2)
        => IF IsRet(result) /\ result.x.t = "Packet"
           THEN /\ result.x.v[1].v = <<FrameBoot(op.rx0)>>
                /\ result.x.v[2].v = <<FrameCommand(op.rx0)>>
                /\ result.x.v[3].v = FramePayload(op.rx0)
                /\ "warning: wrong checksum" \notin Range(log)
           ELSE FALSE

\* C3: an implemented command whose response frame carries another command
\* code than the expected one fails with the error of an unexpected
\* response (the RuntimeError the commands raise) and returns nothing.
C3_CommandMismatch ==
    (ValidCommandCall /\ ResponseAtHead(op.rx0)
         /\ FrameCommand(op.rx0) # ExpectedCommand(op.name))
        => IsExc(result, "RuntimeError")

\* the rate table of the specification
BaudTable(rate) ==
    CASE rate = 600 -> 0 [] rate = 1200 -> 1 [] rate = 2400 -> 2
      [] rate = 4800 -> 3 [] rate = 9600 -> 4 [] rate = 19200 -> 5
      [] rate = 38400 -> 6 [] rate = 57600 -> 7 [] rate = 115200 -> 8
      [] OTHER -> -1

\* C4: set_baud_rate writes a frame with command 0x01 and the one-byte
\* table code of a listed rate; for any other rate it fails and neither
\* writes nor reads.
C4_BaudRateTable ==
    op.name = "set_baud_rate"
        => IF BaudTable(IntOf(op.args[1])) # -1
           THEN /\ WriteCalls # {}
                /\ io[1].c = "write"
                /\ SubSeq(io[1].a.v, 1, 4)
                       = <<64, 3, 1, BaudTable(IntOf(op.args[1]))>>
           ELSE result.k = "exc" /\ io = <<>>

RECURSIVE RecordsBefore(_, _)
\* the IDs of the records of payload from 1-based position pos on, up to the
\* first record that does not end inside the payload
RecordsBefore(payload, pos) ==
    IF pos > Len(payload) THEN <<>>
    ELSE IF pos + (2 * payload[pos]) > Len(payload) THEN <<>>
    ELSE <<bytes_to_hex_string(SubSeq(payload, pos + 1, pos + (2 * payload[pos])))>>
             \o RecordsBefore(payload, pos + (2 * payload[pos]) + 1)

\* C5: list_tag_id on a response whose payload is the count C followed by
\* records returns (C, IDs of the records before the first truncated one).
C5_TagListTruncation ==
    (op.name = "list_tag_id" /\ ValidCommandCall /\ ResponseAtHead(op.rx0)
         /\ FrameCommand(op.rx0) = 238 /\ Len(FramePayload(op.rx0)) >= 1)
        => IF IsRet(result) /\ result.x.t = "tuple"
           THEN result.x.v = <<FramePayload(op.rx0)[1],
                               RecordsBefore(FramePayload(op.rx0), 2)>>
           ELSE FALSE

\* C6: every implemented command makes exactly one write on the transport,
\* before any read.
C6_OneWriteBeforeRead ==
    ValidCommandCall => (Cardinality(WriteCalls) = 1 /\ io[1].c = "write")

\* C7: read_return_packet fails with WrongBootCode, one byte consumed, when
\* the first byte is neither 0xF0 nor 0xF4; otherwise it does not fail with
\* WrongBootCode and goes on to read the effective length.
C7_BootCodeCheck ==
    (op.name = "read_return_packet" /\ HasFrame(op.rx0))
        => IF FrameBoot(op.rx0) \notin {240, 244}
           THEN /\ IsExc(result, "WrongBootCodeException")
                /\ rx = Tail(op.rx0)
                /\ Cardinality(ReadCalls) = 1
           ELSE /\ ~IsExc(result, "WrongBootCodeException")
                /\ Cardinality(ReadCalls) >= 2

\* C8: a frame whose checksum byte is wrong is still returned by
\* read_return_packet, with the received boot code, command and payload,
\* and a warning is logged.
C8_ChecksumWarningOnly ==
    (op.name = "read_return_packet" /\ ResponseAtHead(op.rx0)
         /\ ~FrameChecksumOk(op.rx0))
        => IF IsRet(result) /\ result.x.t = "Packet"
           THEN /\ result.x.v[1].v = <<FrameBoot(op.rx0)>>
                /\ result.x.v[2].v = <<FrameCommand(op.rx0)>>
                /\ result.x.v[3].v = FramePayload(op.rx0)
                /\ "warning: wrong checksum" \in Range(log)
           ELSE FALSE

\* C9: get_reader_version returns ((hw_major, hw_minor), (sw_major,
\* sw_minor)) from a payload of at least 4 bytes and fails with an error on
\* a shorter payload.
C9_ReaderVersion ==
    (op.name = "get_reader_version" /\ ResponseAtHead(op.rx0)
         /\ FrameCommand(op.rx0) = 2)
        => IF Len(FramePayload(op.rx0)) >= 4
           THEN /\ IsRet(result)
                /\ result.x = Tuple(<<Tuple(SubSeq(FramePayload(op.rx0), 1, 2)),
                                      Tuple(SubSeq(FramePayload(op.rx0), 3, 4))>>)
           ELSE IsExc(result, "RuntimeError")

\* C10: every stubbed operation fails with NotImplementedError and makes no
\* call on the transport: nothing written, nothing read, the pending input
\* left as it was.
C10_StubsNoIO ==
    op.name \in StubNames
        => (IsExc(result, "NotImplementedError") /\ io = <<>> /\ rx = op.rx0)

\* a stub was called while a frame of the reader was pending
C10_Witness ==
    /\ op.name = "reboot"
    /\ IsExc(result, "NotImplementedError")
    /\ rx # <<>>

----------------------------------------------------------------------------
(* C11..C20                                                                 *)

\* the last call was Packet.__bytes__ on Packet(0x40, 0x01, payload [0x04])
EncodeScenario ==
    /\ op.name = "Packet.__bytes__"
    /\ op.args[1] = PyInt(64)
    /\ op.args[2] = PyInt(1)
    /\ BytesLike(op.args[3])
    /\ op.args[3].v = <<4>>

\* C11 as written: Encode(0x40, 0x01, [0x04]) is 40 03 01 04 followed by
\* the checksum byte 0xB4.
C11_Original ==
    EncodeScenario => (IsRet(result) /\ result.x.v = <<64, 3, 1, 4, 180>>)

\* C11 amended: Encode(0x40, 0x01, [0x04]) is 40 03 01 04 followed by the
\* checksum byte 0xB8.
C11_EncodeScenario ==
    EncodeScenario => (IsRet(result) /\ result.x.v = <<64, 3, 1, 4, 184>>)

\* the scenario was encoded
C11_Witness == EncodeScenario /\ IsRet(result) /\ Len(result.x.v) = 5

\* no read with a negative byte count was asked of the transport
NoNegativeRead == \A i \in ReadCalls : IsInt(io[i].a) => IntOf(io[i].a) >= 0

\* C12: read_return_packet on a frame of the reader whose effective-length
\* byte is below 2 fails with MalformedLength, and never asks the transport
\* for a negative number of bytes.
C12_MalformedLength ==
    (op.name = "read_return_packet" /\ Len(op.rx0) >= 2
         /\ op.rx0[1] \in {240, 244} /\ op.rx0[2] < 2)
        => (IsExc(result, "MalformedLength") /\ NoNegativeRead)

\* C13: read_param returns the payload of a response with command 0x06
\* unchanged when it has exactly 32 bytes, and fails for every other length.
C13_ReadParam ==
    (op.name = "read_param" /\ ResponseAtHead(op.rx0) /\ FrameCommand(op.rx0) = 6)
        => IF Len(FramePayload(op.rx0)) = 32
           THEN IsRet(result) /\ Sized(result.x)
                    /\ result.x.v = FramePayload(op.rx0)
           ELSE result.k = "exc"

\* the data of the i-th transport call is a request frame of command cmd
\* with the given payload: boot code 0x40, effective length, command,
\* payload, checksum
IsRequestFrame(i, cmd, payload) ==
    /\ i \in WriteCalls
    /\ io[i].a.v = <<64, 2 + Len(payload), cmd>> \o payload
                       \o <<byte(Xor(byte(66 + Len(payload) + cmd + SumSeq(payload)), 255) + 1)>>

\* C14: get_relay writes a request with command 0x0B and no payload, fails
\* on a response whose command is not 0x08 or whose payload is empty, and
\* otherwise returns (bit 0, bit 1) of the first payload byte.
C14_GetRelay ==
    op.name = "get_relay"
        => /\ IsRequestFrame(1, 11, <<>>)
           /\ ResponseAtHead(op.rx0)
                  => IF FrameCommand(op.rx0) # 8 \/ FramePayload(op.rx0) = <<>>
                     THEN result.k = "exc"
                     ELSE /\ IsRet(result)
                          /\ result.x = Tuple(<<And(FramePayload(op.rx0)[1], 1) # 0,
                                                And(FramePayload(op.rx0)[1], 2) # 0>>)

\* C15: set_relay(r1, r2) writes a request with command 0x03 and a one-byte
\* payload with bit 0 = r1, bit 2 = r2 and all other bits 0.
C15_SetRelay ==
    op.name = "set_relay"
        => IsRequestFrame(1, 3, <<BoolInt(op.args[1]) + (4 * BoolInt(op.args[2]))>>)

\* the command code each operation puts in its request
RequestCommand(name) ==
    CASE name = "get_relay" -> 11
      [] OTHER -> ExpectedCommand(name)

\* a frame with boot code 0x40, effective length 2 + payload length, the
\* command cmd and the checksum as its last byte
HasRequestLayout(f, cmd) ==
    /\ Len(f) >= 4
    /\ f[1] = 64
    /\ f[2] = Len(f) - 2
    /\ f[3] = cmd
    /\ SumSeq(f) % 256 = 0

C20_FrameAligned ==
    (op.name = "read_return_packet" /\ ResponseAtHead(op.rx0))
        => rx = SubSeq(op.rx0, op.rx0[2] + 3, Len(op.rx0))

\* the codes error_to_str has a text of their own for
KnownErrorCodes == (0..14) \cup {30, 31, 32}

\* C16: for every code in 0x00..0xFF error_to_str returns a non-empty
\* string without failing; a known code gets a text that no other code
\* gets, and every other code gets "Unknown error".
C16_ErrorToStr ==
    (op.name = "error_to_str" /\ IsInt(op.args[1]) /\ IntOf(op.args[1]) \in 0..255)
        => /\ IsRet(result)
           /\ result.x.t = "str"
           /\ result.x.v[1] # ""
           /\ IF IntOf(op.args[1]) \in KnownErrorCodes
              THEN /\ result.x.v[1] # "Unknown error"
                   /\ \A c \in (0..255) \ {IntOf(op.args[1])} :
                          error_to_str(PyInt(c)) # result.x.v[1]
              ELSE result.x.v[1] = "Unknown error"

\* the text of the known code 0x1F was returned
C16_Witness ==
    /\ op.name = "error_to_str"
    /\ op.args[1] = PyInt(31)
    /\ result = Ret(Str(<<"Unknown command">>))

UpperHexChars ==
    {"0", "1", "2", "3", "4", "5", "6", "7", "8", "9", "A", "B", "C", "D", "E", "F"}

\* C17: for every byte string b, bytes_to_hex_string(b) has 2 * len(b)
\* characters, all of them among 0-9 and A-F, and hex_string_to_bytes
\* returns b for it.
C17_HexRoundTrip ==
    op.name = "bytes_to_hex_string"
        => /\ IsRet(result)
           /\ Len(result.x.v) = 2 * Len(op.args[1].v)
           /\ Range(result.x.v) \subseteq UpperHexChars
           /\ IsRet(hex_string_to_bytes(result.x.v))
           /\ hex_string_to_bytes(result.x.v).x.v = op.args[1].v

\* a two-byte string with a byte below 0x10 and a byte with letters was
\* formatted
C17_Witness ==
    /\ op.name = "bytes_to_hex_string"
    /\ op.args[1].v = <<4, 255>>
    /\ result.x.v = <<"0", "4", "F", "F">>

\* C19: on every payload of at least one byte the scan loop of list_tag_id
\* terminates; the scan pointer grows in every iteration, never passes the
\* payload length, and no index outside the payload is read, records of no
\* words included.
C19_ScanTerminates ==
    /\ [](scan.ptr <= Len(scan.data) /\ scan.top < Len(scan.data))
    /\ [][scan'.pc = "loop" => scan'.ptr > scan.ptr]_scan
    /\ <>(scan.pc = "done")

\* the scan ended after a record of no words and a record with words
C19_Witness ==
    /\ scan.pc = "done"
    /\ Len(scan.tags) >= 2
    /\ <<>> \in Range(scan.tags)
    /\ \E i \in DOMAIN scan.tags : scan.tags[i] # <<>>
    /\ scan.tags = ScanTags(scan.data, 1, <<>>)

====
